---- MODULE Spec2Model ----
(***************************************************************************)
(* Transaction synchronisation and deduplication engine:                   *)
(*   TransactionSyncService (syncAll / syncSource) and GoogleSheetClient   *)
(*   (getExistingIds / getLatestTransactionInfo / addTransactions).        *)
(* Texts are tuples of one-character strings, so that trimming, splitting, *)
(* parsing and formatting are computed, not assumed.                       *)
(***************************************************************************)
EXTENDS Integers, Sequences, FiniteSets, TLC

\* ------------------------------------------------------------------ bounds
\* syncAll invocations that may exist side by side
NumProcs == 2
\* calendar days the provider records fall on
NumDays == 2
\* latest time-of-day tick of a provider record
MaxTod == 1
\* provider records of the Brex account
NumBrex == 3
\* charges of the Stripe account
NumStripe == 2
\* longest list one fetchTransactions call returns
MaxFetch == 2
\* longest source list handed to syncAll
MaxSources == 2
\* syncSource executions in one behaviour
MaxSyncs == 2
\* failing spreadsheet requests in one behaviour
MaxSinkFailures == 1

Procs == 1..NumProcs

\* -------------------------------------------------------------------- text
DigitChar == <<"0", "1", "2", "3", "4", "5", "6", "7", "8", "9">>

DigitVal(c) == (CHOOSE k \in 1..10 : DigitChar[k] = c) - 1

IsDigit(c) == \E k \in 1..10 : DigitChar[k] = c

NaN == -1

RECURSIVE NumText(_)
\* String(n) for a non-negative integer
NumText(n) == IF n < 10 THEN <<DigitChar[n + 1]>>
              ELSE NumText(n \div 10) \o <<DigitChar[(n % 10) + 1]>>

\* s.padStart(w, '0')
RECURSIVE padStart(_, _)
padStart(s, w) == IF Len(s) >= w THEN s ELSE padStart(<<"0">> \o s, w)

\* s.slice(-2)
sliceLast2(s) == IF Len(s) <= 2 THEN s ELSE SubSeq(s, Len(s) - 1, Len(s))

RECURSIVE trimStart(_)
trimStart(s) == IF s # <<>> /\ s[1] = " " THEN trimStart(Tail(s)) ELSE s

RECURSIVE trimEnd(_)
trimEnd(s) == IF s # <<>> /\ s[Len(s)] = " " THEN trimEnd(SubSeq(s, 1, Len(s) - 1)) ELSE s

\* String.prototype.trim
trim(s) == trimEnd(trimStart(s))

RECURSIVE split(_, _)
\* s.split(sep) for a one-character separator
split(s, sep) ==
    IF \A k \in 1..Len(s) : s[k] # sep THEN <<s>>
    ELSE LET k == CHOOSE j \in 1..Len(s) : s[j] = sep /\ \A i \in 1..(j - 1) : s[i] # sep
         IN  <<SubSeq(s, 1, k - 1)>> \o split(SubSeq(s, k + 1, Len(s)), sep)

RECURSIVE DigitPrefixVal(_, _)
DigitPrefixVal(s, acc) == IF s = <<>> \/ ~IsDigit(s[1]) THEN acc
                          ELSE DigitPrefixVal(Tail(s), acc * 10 + DigitVal(s[1]))

\* parseInt(s, 10): leading blanks skipped, the digit prefix read, NaN without one
parseInt(s) == LET t == trimStart(s)
               IN  IF t = <<>> \/ ~IsDigit(t[1]) THEN NaN ELSE DigitPrefixVal(t, 0)

\* JavaScript truthiness of the numbers parseInt yields
Truthy(n) == n # NaN /\ n # 0

\* ------------------------------------------------------------------- dates
\* A date is [y, m, d, tod] in local time; tod counts ticks after midnight.
TicksPerDay == MaxTod + 1

Instant(dt) == ((dt.y * 12 + (dt.m - 1)) * 31 + (dt.d - 1)) * TicksPerDay + dt.tod

\* Date.prototype.toDateString equality: same local calendar day
SameDay(a, b) == a.y = b.y /\ a.m = b.m /\ a.d = b.d

NoDate == [y |-> 0, m |-> 0, d |-> 0, tod |-> 0]

\* dd/mm/yy of a date, as syncSource and addTransactions both write it
formattedDate(dt) ==
    padStart(NumText(dt.d), 2) \o <<"/">> \o padStart(NumText(dt.m), 2)
        \o <<"/">> \o sliceLast2(NumText(dt.y))

RECURSIVE GroupThousands(_)
GroupThousands(n) == IF n < 1000 THEN NumText(n)
                     ELSE GroupThousands(n \div 1000) \o <<",">> \o padStart(NumText(n % 1000), 3)

\* amount.toFixed(2) with thousands separators; the amount is held in cents
formatAmountWithCommas(cents) ==
    GroupThousands(cents \div 100) \o <<".">> \o padStart(NumText(cents % 100), 2)

\* ------------------------------------------------- provider transactions
\* The k-th calendar day of the provider data: 30/11/25, 01/12/25, 02/12/25, ...
DayDate(k, tod) == IF k = 1 THEN [y |-> 2025, m |-> 11, d |-> 30, tod |-> tod]
                   ELSE [y |-> 2025, m |-> 12, d |-> k - 1, tod |-> tod]

Generect == <<"G", "E", "N", "E", "R", "E", "C", "T", ",", " ", "I", "N", "C", ".">>

\* The i-th Transaction the Brex connector can return (brexData.originalDescription
\* is held in originalDescription).  The attributes vary with i so that a small
\* universe holds a record at midnight of the later day (1), one late on the
\* first day (2), one with an untrimmed memo and another amount (3), one whose
\* triple equals that of record 1 (4), an income (5) and a card record (6).
BrexTxn(i) ==
    [src |-> "brex", id |-> i,
     date |-> DayDate(IF i % 4 = 2 THEN 1 ELSE 2 + (((i - 1) \div 4) % (NumDays - 1)),
                      IF i % 4 = 1 THEN 0 ELSE MaxTod),
     amount |-> IF i % 4 = 3 THEN 150 ELSE 123450,
     type |-> IF i % 8 = 5 THEN "income" ELSE "expense",
     account |-> IF i % 8 = 6 THEN "Brex Card" ELSE "Brex",
     memo |-> IF i % 4 = 3 THEN <<"a", " ">> ELSE <<"a">>,
     description |-> <<"b">>,
     originalDescription |-> IF i % 8 = 6 THEN <<"c", " ">> ELSE <<>>]

\* The i-th Transaction the Stripe connector can return
StripeTxn(i) ==
    [src |-> "stripe", id |-> i,
     date |-> DayDate(((i - 1) % NumDays) + 1, ((i - 1) \div NumDays) % TicksPerDay),
     amount |-> 1000 * i,
     type |-> "income",
     account |-> "Stripe",
     memo |-> <<>>,
     description |-> <<"b">>,
     originalDescription |-> <<>>]

\* charge.id as text
StripeIdText(i) == <<"c", "h", "_">> \o NumText(i)

InjSeqs(S, n) == UNION {{s \in [1..k -> S] : \A a, b \in 1..k : a # b => s[a] # s[b]} : k \in 0..n}

RECURSIVE InsertByDate(_, _)
\* place t after every element that is not later than it (stable)
InsertByDate(sorted, t) ==
    IF sorted = <<>> THEN <<t>>
    ELSE IF Instant(sorted[Len(sorted)].date) <= Instant(t.date) THEN Append(sorted, t)
    ELSE Append(InsertByDate(SubSeq(sorted, 1, Len(sorted) - 1), t), sorted[Len(sorted)])

RECURSIVE SortFrom(_, _)
SortFrom(done, rest) == IF rest = <<>> THEN done
                        ELSE SortFrom(InsertByDate(done, Head(rest)), Tail(rest))

\* sortByDate with the sort left out
sortByDateSkipped(txns) == txns

\* Array.prototype.sort((a, b) => dateA.getTime() - dateB.getTime()), a stable sort
sortByDate(txns) == SortFrom(<<>>, txns)

\* What BrexParser.fetchTransactions can return: records in date order
BrexFetches == {sortByDate(s) : s \in InjSeqs({BrexTxn(i) : i \in 1..NumBrex}, MaxFetch)}

\* What StripeParser.fetchTransactions can return: charges in the provider's order
StripeFetches == InjSeqs({StripeTxn(i) : i \in 1..NumStripe}, MaxFetch)

\* ------------------------------------------------------------------- sheets
BrexSheet == "Auto_input.Brex"

StripeSheet == "Auto_input.Stripe"

SheetNames == {BrexSheet, StripeSheet}

\* A sheet row: the cells the sync reads back, and (ghost) the transaction it
\* was written for; txn = 0 marks a header row.
HeaderRow(sheetName) ==
    IF sheetName = BrexSheet
    THEN [cells |-> << <<"D", "a", "t", "e">>, <<"T", "o">>, <<"A", "m", "t">> >>, src |-> "none", txn |-> 0, date |-> NoDate]
    ELSE [cells |-> << <<"i", "d">> >>, src |-> "none", txn |-> 0, date |-> NoDate]

\* To/From of a Brex transaction
toFrom(t) ==
    IF t.account = "Brex Card"
    THEN IF t.originalDescription # <<>> THEN t.originalDescription
         ELSE IF t.description # <<>> THEN t.description ELSE Generect
    ELSE IF t.memo # <<>> THEN t.memo
    ELSE IF t.description # <<>> THEN t.description ELSE Generect

\* signed amount text
amountValue(t) == (IF t.type = "income" THEN <<>> ELSE <<"-">>) \o formatAmountWithCommas(t.amount)

\* addTransactions: the row written for one transaction
RowOf(sheetName, t) ==
    IF sheetName = StripeSheet
    THEN [cells |-> <<StripeIdText(t.id)>>, src |-> t.src, txn |-> t.id, date |-> t.date]
    ELSE [cells |-> <<formattedDate(t.date), toFrom(t), amountValue(t)>>,
          src |-> t.src, txn |-> t.id, date |-> t.date]

\* RowsOf with the last transaction of the batch left out
RowsOfButLast(sheetName, txns) == [k \in 1..(Len(txns) - 1) |-> RowOf(sheetName, txns[k])]

RowsOf(sheetName, txns) == [k \in 1..Len(txns) |-> RowOf(sheetName, txns[k])]

\* values.get: the cell rows of a sheet
Values(rows) == [k \in 1..Len(rows) |-> rows[k].cells]

\* getExistingIds, Stripe branch: column A below the first row
getExistingIds(values) ==
    {values[i][1] : i \in {j \in 2..Len(values) : Len(values[j]) >= 1 /\ values[j][1] # <<>>}}

\* the three numbers of a dd/mm/yy text
DateParts(dateStr) ==
    LET parts == split(dateStr, "/")
    IN  [k \in 1..3 |-> IF k <= Len(parts) THEN parseInt(parts[k]) ELSE NaN]

\* a data row getLatestTransactionInfo keeps: A, B, C filled and the date parsed
RowParses(row) ==
    /\ Len(row) >= 3 /\ row[1] # <<>> /\ row[2] # <<>> /\ row[3] # <<>>
    /\ LET n == DateParts(trim(row[1])) IN Truthy(n[1]) /\ Truthy(n[2]) /\ Truthy(n[3])

\* new Date(fullYear, month - 1, day) with the two-digit-year pivot
actualDate(row) ==
    LET n == DateParts(trim(row[1]))
    IN  [y |-> IF n[3] < 50 THEN 2000 + n[3] ELSE 1900 + n[3], m |-> n[2], d |-> n[1], tod |-> 0]

ExistingEntry(row) == [date |-> trim(row[1]), description |-> trim(row[2]), amount |-> trim(row[3])]

\* getLatestTransactionInfo, Brex branch
getLatestTransactionInfo(values) ==
    LET data == SelectSeq(SubSeq(values, 2, Len(values)), RowParses)
        latest == IF data = <<>> THEN NoDate
                  ELSE LET k == CHOOSE i \in 1..Len(data) :
                                   \A j \in 1..Len(data) : Instant(actualDate(data[j])) <= Instant(actualDate(data[i]))
                       IN  actualDate(data[k])
        onLatest == SelectSeq(data, LAMBDA r : SameDay(actualDate(r), latest))
    IN  [latestDate |-> latest,
         existingFromLatestDate |-> [k \in 1..Len(onLatest) |-> ExistingEntry(onLatest[k])]]

EmptyInfo == [latestDate |-> NoDate, existingFromLatestDate |-> <<>>]

\* ------------------------------------------------------------ dedup filters
\* BrexIsNew with the boundary comparison made inclusive
BrexIsNewInclusive(t, info) ==
    IF info.latestDate = NoDate THEN TRUE
    ELSE IF Instant(t.date) <= Instant(info.latestDate) THEN FALSE
    ELSE IF SameDay(t.date, info.latestDate)
         THEN ~\E k \in 1..Len(info.existingFromLatestDate) :
                  LET existing == info.existingFromLatestDate[k]
                  IN  /\ existing.date = formattedDate(t.date)
                      /\ existing.amount = amountValue(t)
                      /\ existing.description = toFrom(t)
         ELSE TRUE

\* BrexIsNew without the exclusion of transactions older than the latest date
BrexIsNewNoBoundary(t, info) ==
    IF info.latestDate = NoDate THEN TRUE
    ELSE IF SameDay(t.date, info.latestDate)
         THEN ~\E k \in 1..Len(info.existingFromLatestDate) :
                  LET existing == info.existingFromLatestDate[k]
                  IN  /\ existing.date = formattedDate(t.date)
                      /\ existing.amount = amountValue(t)
                      /\ existing.description = toFrom(t)
         ELSE TRUE

\* the predicate of the Brex filter in syncSource
BrexIsNew(t, info) ==
    IF info.latestDate = NoDate THEN TRUE
    ELSE IF Instant(t.date) < Instant(info.latestDate) THEN FALSE
    ELSE IF SameDay(t.date, info.latestDate)
         THEN ~\E k \in 1..Len(info.existingFromLatestDate) :
                  LET existing == info.existingFromLatestDate[k]
                  IN  /\ existing.date = formattedDate(t.date)
                      /\ existing.amount = amountValue(t)
                      /\ existing.description = toFrom(t)
         ELSE TRUE

\* StripeIsNew with the negation lost
StripeIsNewInverted(t, existingIds) == StripeIdText(t.id) \in existingIds

\* the predicate of the Stripe filter in syncSource
StripeIsNew(t, existingIds) == StripeIdText(t.id) \notin existingIds

\* -------------------------------------------------------------------- state
VARIABLES
    sheets,           \* sheet name -> rows of the spreadsheet
    keys,             \* sources whose API key is configured
    concurrent,       \* whether syncAll calls may overlap (HTTP endpoints) or not
    pc,               \* per invocation: "idle", "loop", "fetched", "filtered", "done"
    todo,             \* per invocation: the sources the for loop has not finished yet
    results,          \* per invocation: SyncResult list built so far / returned
    allTransactions,  \* per invocation: syncSource local
    anchor,           \* per invocation: what the sheet read returned (rowsSeen is a
                      \* ghost: the rows the sheet had when it was read)
    newTransactions,  \* per invocation: syncSource local, filtered and sorted
    syncs,            \* syncSource executions started so far
    sinkFailures,     \* spreadsheet requests that have failed so far
    requested,        \* ghost: per invocation, the known names of the list given to syncAll
    sheets0,          \* ghost: per invocation, the sheets when syncAll was called
    journal           \* ghost: one entry per finished syncSource call

\* the connectors and the probes, one call at a time
VARIABLES
    connector,        \* the parser whose fetchTransactions is followed
    held,             \* stream -> number of records the provider holds
    step,             \* position in fetchTransactions: "idle", "cash", "card",
                      \* "charges", "returned", "threw"
    endpoint,         \* index of the cash endpoint the Brex loop is at
    collected,        \* stream -> records pushed to the result so far
    requests,         \* ghost: the provider requests made, with their outcome
    tests,            \* testConnections: index of the next probe (0: not called)
    allPassed,        \* testConnections: allPassed
    probed,           \* ghost: the probes run, with the outcome of their request
                      \* and what they returned
    transactions      \* the Transaction list fetchTransactions has built so far

syncVars == <<sheets, concurrent, pc, todo, results, allTransactions,
              anchor, newTransactions, syncs, sinkFailures, requested, sheets0, journal>>

connVars == <<connector, held, step, endpoint, collected, requests, tests, allPassed, probed,
              transactions>>

vars == <<sheets, keys, concurrent, pc, todo, results, allTransactions,
          anchor, newTransactions, syncs, sinkFailures, requested, sheets0, journal,
          connector, held, step, endpoint, collected, requests, tests, allPassed, probed,
          transactions>>

SourceNames == {"brex", "stripe", "privatbank"}

KnownSources == {"brex", "stripe"}

SourceLists == UNION {[1..n -> SourceNames] : n \in 0..MaxSources}

\* the sheet syncAll hands to syncSource for a source
SheetOf(source) == IF source = "brex" THEN BrexSheet ELSE StripeSheet

Fetches(source) == IF source = "brex" THEN BrexFetches ELSE StripeFetches

KnownCount(srcs) == Cardinality({k \in 1..Len(srcs) : srcs[k] \in KnownSources})

NoAnchor == [existingIds |-> {}, info |-> EmptyInfo]

\* the sheet read answering from the rows although the request failed
ReadAnchorOfIgnoringFailure(source, rows, ok) ==
    IF source = "brex"
    THEN [existingIds |-> {}, info |-> getLatestTransactionInfo(Values(rows))]
    ELSE [existingIds |-> getExistingIds(Values(rows)), info |-> EmptyInfo]

\* the sheet read of syncSource; a failed read is caught inside the sheet client
\* and yields the empty answer
ReadAnchorOf(source, rows, ok) ==
    IF source = "brex"
    THEN [existingIds |-> {}, info |-> IF ok THEN getLatestTransactionInfo(Values(rows)) ELSE EmptyInfo]
    ELSE [existingIds |-> IF ok THEN getExistingIds(Values(rows)) ELSE {}, info |-> EmptyInfo]

\* the filter of syncSource
FilterNew(source, all, a) ==
    IF source = "brex"
    THEN SelectSeq(all, LAMBDA t : BrexIsNew(t, a.info))
    ELSE SelectSeq(all, LAMBDA t : StripeIsNew(t, a.existingIds))

\* SyncResult
Result(source, new, total, errors) ==
    [source |-> source, new |-> new, total |-> total, errors |-> errors]

\* the SyncResult of the catch block of syncAll
ErrorResult(source, message) == Result(source, 0, 0, <<message>>)

\* addTransactions reporting one row per call instead of one per transaction
AddedCountOnePerCall(txns, ok) == IF ok THEN 1 ELSE 0

\* what addTransactions returns
AddedCount(txns, ok) == IF ok THEN Len(txns) ELSE 0

Entry(p, source, threw, all, a, passed, readOk, wrote, writeOk, res) ==
    [proc |-> p, source |-> source, threw |-> threw, all |-> all, anchor |-> a,
     passed |-> passed, readOk |-> readOk, wrote |-> wrote, writeOk |-> writeOk,
     result |-> res]

Running(p) == pc[p] \in {"loop", "fetched", "filtered"}

\* no connector call and no testConnections call is followed
ConnectorsIdle ==
    /\ connector = "none"
    /\ held = [cash |-> 0, card |-> 0, charges |-> 0]
    /\ step = "idle"
    /\ endpoint = 1
    /\ collected = [cash |-> {}, card |-> {}, charges |-> {}]
    /\ requests = <<>>
    /\ tests = 0
    /\ allPassed = TRUE
    /\ probed = <<>>
    /\ transactions = <<>>

Init ==
    /\ sheets \in [SheetNames -> {<<>>}] \cup {[n \in SheetNames |-> <<HeaderRow(n)>>]}
    /\ keys \in SUBSET KnownSources
    /\ concurrent = FALSE
    /\ pc = [p \in Procs |-> "idle"]
    /\ todo = [p \in Procs |-> <<>>]
    /\ requested = [p \in Procs |-> <<>>]
    /\ results = [p \in Procs |-> <<>>]
    /\ allTransactions = [p \in Procs |-> <<>>]
    /\ anchor = [p \in Procs |-> [readOk |-> TRUE, rowsSeen |-> 0, a |-> NoAnchor]]
    /\ newTransactions = [p \in Procs |-> <<>>]
    /\ syncs = 0
    /\ sinkFailures = 0
    /\ sheets0 = [p \in Procs |-> sheets]
    /\ journal = <<>>
    /\ ConnectorsIdle

\* the service behind the HTTP endpoints: requests are served as they arrive, so
\* a syncAll call may start while another one is waiting at an await. Both API
\* keys are configured, the sheets hold their header rows and the spreadsheet
\* answers every request.
InitOverlap ==
    /\ sheets = [n \in SheetNames |-> <<HeaderRow(n)>>]
    /\ keys = KnownSources
    /\ concurrent = TRUE
    /\ pc = [p \in Procs |-> "idle"]
    /\ todo = [p \in Procs |-> <<>>]
    /\ requested = [p \in Procs |-> <<>>]
    /\ results = [p \in Procs |-> <<>>]
    /\ allTransactions = [p \in Procs |-> <<>>]
    /\ anchor = [p \in Procs |-> [readOk |-> TRUE, rowsSeen |-> 0, a |-> NoAnchor]]
    /\ newTransactions = [p \in Procs |-> <<>>]
    /\ syncs = 0
    /\ sinkFailures = MaxSinkFailures
    /\ sheets0 = [p \in Procs |-> sheets]
    /\ journal = <<>>
    /\ ConnectorsIdle

\* syncAll(sources): initialize, then enter the loop. One after the other the
\* calls are made by invocation 1; overlapping, each HTTP request is an
\* invocation of its own, numbered in the order of arrival, and names at least
\* one known source.
SyncAll(p, srcs) ==
    /\ UNCHANGED connVars
    /\ pc[p] \in {"idle", "done"}
    /\ \/ /\ concurrent
          /\ pc[p] = "idle" /\ \A q \in 1..(p - 1) : pc[q] # "idle"
          /\ KnownCount(srcs) >= 1
       \/ /\ ~concurrent
          /\ p = 1 /\ \A q \in Procs : ~Running(q)
    /\ syncs + KnownCount(srcs) <= MaxSyncs
    /\ syncs' = syncs + KnownCount(srcs)
    /\ pc' = [pc EXCEPT ![p] = "loop"]
    /\ todo' = [todo EXCEPT ![p] = srcs]
    /\ requested' = [requested EXCEPT ![p] = SelectSeq(srcs, LAMBDA n : n \in KnownSources)]
    /\ results' = [results EXCEPT ![p] = <<>>]
    /\ sheets0' = [sheets0 EXCEPT ![p] = sheets]
    /\ UNCHANGED <<sheets, keys, concurrent, allTransactions, anchor, newTransactions,
                   sinkFailures, journal>>

\* default branch of the switch: log and continue, no result
SkipUnknown(p) ==
    /\ UNCHANGED connVars
    /\ pc[p] = "loop" /\ todo[p] # <<>>
    /\ Head(todo[p]) \notin KnownSources
    /\ todo' = [todo EXCEPT ![p] = Tail(todo[p])]
    /\ UNCHANGED <<sheets, keys, concurrent, pc, results, allTransactions,
                   anchor, newTransactions, syncs, sinkFailures, requested, sheets0, journal>>

\* FetchThrows with the try/catch around the loop instead of inside it: the
\* error is recorded and the remaining sources are dropped
FetchThrowsAborts(p) ==
    /\ UNCHANGED connVars
    /\ pc[p] = "loop" /\ todo[p] # <<>>
    /\ LET source == Head(todo[p])
           res == ErrorResult(source, "fetch failed")
       IN  /\ source \in KnownSources
           /\ source \notin keys \/ source = "stripe"
           /\ results' = [results EXCEPT ![p] = Append(results[p], res)]
           /\ journal' = Append(journal, Entry(p, source, TRUE, <<>>, NoAnchor, <<>>, TRUE, FALSE, TRUE, res))
    /\ todo' = [todo EXCEPT ![p] = <<>>]
    /\ UNCHANGED <<sheets, keys, concurrent, pc, allTransactions, anchor,
                   newTransactions, syncs, sinkFailures, requested, sheets0>>

\* fetchTransactions throws (no API key; for Stripe also a failed API call);
\* the catch block of syncAll records the error and the loop goes on
FetchThrows(p) ==
    /\ UNCHANGED connVars
    /\ pc[p] = "loop" /\ todo[p] # <<>>
    /\ LET source == Head(todo[p])
           res == ErrorResult(source, "fetch failed")
       IN  /\ source \in KnownSources
           /\ source \notin keys \/ source = "stripe"
           /\ results' = [results EXCEPT ![p] = Append(results[p], res)]
           /\ journal' = Append(journal, Entry(p, source, TRUE, <<>>, NoAnchor, <<>>, TRUE, FALSE, TRUE, res))
    /\ todo' = [todo EXCEPT ![p] = Tail(todo[p])]
    /\ UNCHANGED <<sheets, keys, concurrent, pc, allTransactions, anchor,
                   newTransactions, syncs, sinkFailures, requested, sheets0>>

\* syncSource without the early return on an empty fetch
FetchEmptyNoEarlyReturn(p) ==
    /\ UNCHANGED connVars
    /\ pc[p] = "loop" /\ todo[p] # <<>>
    /\ Head(todo[p]) \in KnownSources /\ Head(todo[p]) \in keys
    /\ allTransactions' = [allTransactions EXCEPT ![p] = <<>>]
    /\ pc' = [pc EXCEPT ![p] = "fetched"]
    /\ UNCHANGED <<sheets, keys, concurrent, todo, results, anchor,
                   newTransactions, syncs, sinkFailures, requested, sheets0, journal>>

\* fetchTransactions returns nothing: syncSource returns at once
FetchEmpty(p) ==
    /\ UNCHANGED connVars
    /\ pc[p] = "loop" /\ todo[p] # <<>>
    /\ LET source == Head(todo[p])
           res == Result(source, 0, 0, <<>>)
       IN  /\ source \in KnownSources /\ source \in keys
           /\ results' = [results EXCEPT ![p] = Append(results[p], res)]
           /\ journal' = Append(journal, Entry(p, source, FALSE, <<>>, NoAnchor, <<>>, TRUE, FALSE, TRUE, res))
    /\ todo' = [todo EXCEPT ![p] = Tail(todo[p])]
    /\ UNCHANGED <<sheets, keys, concurrent, pc, allTransactions, anchor,
                   newTransactions, syncs, sinkFailures, requested, sheets0>>

\* fetchTransactions returns a non-empty list
FetchSome(p, list) ==
    /\ UNCHANGED connVars
    /\ pc[p] = "loop" /\ todo[p] # <<>>
    /\ Head(todo[p]) \in KnownSources /\ Head(todo[p]) \in keys
    /\ list \in Fetches(Head(todo[p])) /\ list # <<>>
    /\ allTransactions' = [allTransactions EXCEPT ![p] = list]
    /\ pc' = [pc EXCEPT ![p] = "fetched"]
    /\ UNCHANGED <<sheets, keys, concurrent, todo, results, anchor,
                   newTransactions, syncs, sinkFailures, requested, sheets0, journal>>

\* the sheet read (getLatestTransactionInfo / getExistingIds), the filter and
\* the sort of syncSource
ReadAnchor(p, ok) ==
    /\ UNCHANGED connVars
    /\ pc[p] = "fetched"
    /\ ok \/ sinkFailures < MaxSinkFailures
    /\ sinkFailures' = IF ok THEN sinkFailures ELSE sinkFailures + 1
    /\ LET source == Head(todo[p])
           a == ReadAnchorOf(source, sheets[SheetOf(source)], ok)
       IN  /\ anchor' = [anchor EXCEPT ![p] = [readOk |-> ok, rowsSeen |-> Len(sheets[SheetOf(source)]), a |-> a]]
           /\ newTransactions' = [newTransactions EXCEPT ![p] =
                                     sortByDate(FilterNew(source, allTransactions[p], a))]
    /\ pc' = [pc EXCEPT ![p] = "filtered"]
    /\ UNCHANGED <<sheets, keys, concurrent, todo, results, allTransactions,
                   syncs, requested, sheets0, journal>>

\* nothing is new: syncSource returns without touching the sheet
NothingNew(p) ==
    /\ UNCHANGED connVars
    /\ pc[p] = "filtered" /\ newTransactions[p] = <<>>
    /\ LET source == Head(todo[p])
           res == Result(source, 0, Len(allTransactions[p]), <<>>)
       IN  /\ results' = [results EXCEPT ![p] = Append(results[p], res)]
           /\ journal' = Append(journal, Entry(p, source, FALSE, allTransactions[p], anchor[p].a,
                                               <<>>, anchor[p].readOk, FALSE, TRUE, res))
    /\ todo' = [todo EXCEPT ![p] = Tail(todo[p])]
    /\ pc' = [pc EXCEPT ![p] = "loop"]
    /\ allTransactions' = [allTransactions EXCEPT ![p] = <<>>]
    /\ anchor' = [anchor EXCEPT ![p] = [readOk |-> TRUE, rowsSeen |-> 0, a |-> NoAnchor]]
    /\ UNCHANGED <<sheets, keys, concurrent, newTransactions, syncs, sinkFailures, requested, sheets0>>

\* addTransactions called again after a failed write
AddTransactionsRetrying(p, ok) ==
    /\ UNCHANGED connVars
    /\ pc[p] = "filtered" /\ newTransactions[p] # <<>>
    /\ ok \/ sinkFailures < MaxSinkFailures
    /\ sinkFailures' = IF ok THEN sinkFailures ELSE sinkFailures + 1
    /\ LET source == Head(todo[p])
           name == SheetOf(source)
           res == Result(source, AddedCount(newTransactions[p], ok), Len(allTransactions[p]), <<>>)
       IN  IF ok
           THEN /\ sheets' = [sheets EXCEPT ![name] = sheets[name] \o RowsOf(name, newTransactions[p])]
                /\ results' = [results EXCEPT ![p] = Append(results[p], res)]
                /\ journal' = Append(journal, Entry(p, source, FALSE, allTransactions[p], anchor[p].a,
                                                    newTransactions[p], anchor[p].readOk, TRUE, ok, res))
                /\ todo' = [todo EXCEPT ![p] = Tail(todo[p])]
                /\ pc' = [pc EXCEPT ![p] = "loop"]
                /\ allTransactions' = [allTransactions EXCEPT ![p] = <<>>]
                /\ anchor' = [anchor EXCEPT ![p] = [readOk |-> TRUE, rowsSeen |-> 0, a |-> NoAnchor]]
                /\ newTransactions' = [newTransactions EXCEPT ![p] = <<>>]
           ELSE UNCHANGED <<sheets, results, journal, todo, pc, allTransactions, anchor, newTransactions>>
    /\ UNCHANGED <<keys, concurrent, syncs, requested, sheets0>>

\* addTransactions: the rows are appended, or the failed write is caught inside
\* the sheet client and 0 is returned; syncSource returns the count
AddTransactions(p, ok) ==
    /\ UNCHANGED connVars
    /\ pc[p] = "filtered" /\ newTransactions[p] # <<>>
    /\ ok \/ sinkFailures < MaxSinkFailures
    /\ sinkFailures' = IF ok THEN sinkFailures ELSE sinkFailures + 1
    /\ LET source == Head(todo[p])
           name == SheetOf(source)
           res == Result(source, AddedCount(newTransactions[p], ok), Len(allTransactions[p]), <<>>)
       IN  /\ sheets' = IF ok THEN [sheets EXCEPT ![name] = sheets[name] \o RowsOf(name, newTransactions[p])]
                        ELSE sheets
           /\ results' = [results EXCEPT ![p] = Append(results[p], res)]
           /\ journal' = Append(journal, Entry(p, source, FALSE, allTransactions[p], anchor[p].a,
                                               newTransactions[p], anchor[p].readOk, TRUE, ok, res))
    /\ todo' = [todo EXCEPT ![p] = Tail(todo[p])]
    /\ pc' = [pc EXCEPT ![p] = "loop"]
    /\ allTransactions' = [allTransactions EXCEPT ![p] = <<>>]
    /\ anchor' = [anchor EXCEPT ![p] = [readOk |-> TRUE, rowsSeen |-> 0, a |-> NoAnchor]]
    /\ newTransactions' = [newTransactions EXCEPT ![p] = <<>>]
    /\ UNCHANGED <<keys, concurrent, syncs, requested, sheets0>>

\* the loop is over: syncAll returns results
Return(p) ==
    /\ UNCHANGED connVars
    /\ pc[p] = "loop" /\ todo[p] = <<>>
    /\ pc' = [pc EXCEPT ![p] = "done"]
    /\ UNCHANGED <<sheets, keys, concurrent, todo, results, allTransactions,
                   anchor, newTransactions, syncs, sinkFailures, requested, sheets0, journal>>

\* TransactionController.sync: the response built from what syncAll returned
syncResponse(res) == [success |-> TRUE, results |-> res]

\* main of the command line tool: the exit code after a sync command
mainExitCode(res) == 0

Next ==
    \/ \E p \in Procs, srcs \in SourceLists : SyncAll(p, srcs)
    \/ \E p \in Procs : SkipUnknown(p)
    \/ \E p \in Procs : FetchThrows(p)
    \/ \E p \in Procs : FetchEmpty(p)
    \/ \E p \in Procs, list \in BrexFetches \cup StripeFetches : FetchSome(p, list)
    \/ \E p \in Procs, ok \in BOOLEAN : ReadAnchor(p, ok)
    \/ \E p \in Procs : NothingNew(p)
    \/ \E p \in Procs, ok \in BOOLEAN : AddTransactions(p, ok)
    \/ \E p \in Procs : Return(p)

Spec == Init /\ [][Next]_vars

SpecOverlap == InitOverlap /\ [][Next]_vars

\* ------------------------------------------------- connectors and probes
\* the bound on the pages a provider holds
MaxPages == 2

\* limit: 100, the page size every connector asks for
limit == 100

\* the bound on the requests kept in the log of a fetch
MaxRequests == 4

Connectors == {"brex", "stripe", "stripejs", "brexjs"}

\* the cash endpoints the Brex parser tries in turn
cashEndpoints == <<"/v2/transactions/cash/primary", "/v2/transactions/cash", "/v1/transfers">>

cardEndpoint == "/v2/transactions/card/primary"

chargesEndpoint == "charges.list"

\* record counts around the page boundaries
HeldCounts == {0, 1} \cup UNION {{k * limit, k * limit + 1} : k \in 1..MaxPages}

\* the records a provider returns for a request of one page after a cursor
Page(n, after) == {r \in 1..n : after < r /\ r <= after + limit}

\* has_more of a list response
has_more(n, after) == after + limit < n

\* what a provider can hold for a connector
HeldOf(c) ==
    IF c = "brex"
    THEN {[cash |-> a, card |-> b, charges |-> 0] : a \in HeldCounts, b \in HeldCounts}
    ELSE IF c = "brexjs"
    THEN {[cash |-> 0, card |-> b, charges |-> 0] : b \in HeldCounts}
    ELSE {[cash |-> 0, card |-> 0, charges |-> a] : a \in HeldCounts}

\* the has_more flag or next_cursor a provider can answer with: the true one,
\* or one that announces a further page that does not exist
Announced(n, after) == {has_more(n, after), TRUE}

\* a request as logged: its endpoint, whether it was answered, and the parity
\* of its number, which tells a repeated request from the one before it
Request(e, ok) ==
    [endpoint |-> e, ok |-> ok,
     turn |-> IF requests = <<>> THEN 0 ELSE 1 - requests[Len(requests)].turn]

\* the request log of a paginating loop: the last MaxRequests requests
Logged(req) ==
    IF Len(requests) < MaxRequests THEN Append(requests, req) ELSE Append(Tail(requests), req)

\* the probes of testConnections, in the order of the tests array
TestNames == <<"Google Sheets", "Brex", "Stripe">>

\* what a probe needs to be configured: the spreadsheet id or the API key
ConfigOf(name) == IF name = "Google Sheets" THEN "sheets" ELSE IF name = "Brex" THEN "brex" ELSE "stripe"

\* testConnection of the sheet client and of the parsers: false without
\* configuration, false when the request inside the try block fails
testConnection(name, ok) == ConfigOf(name) \in keys /\ ok

InitConnectors ==
    /\ sheets = [n \in SheetNames |-> <<HeaderRow(n)>>]
    /\ keys \in SUBSET (KnownSources \cup {"sheets"})
    /\ concurrent = FALSE
    /\ pc = [p \in Procs |-> "idle"]
    /\ todo = [p \in Procs |-> <<>>]
    /\ requested = [p \in Procs |-> <<>>]
    /\ results = [p \in Procs |-> <<>>]
    /\ allTransactions = [p \in Procs |-> <<>>]
    /\ anchor = [p \in Procs |-> [readOk |-> TRUE, rowsSeen |-> 0, a |-> NoAnchor]]
    /\ newTransactions = [p \in Procs |-> <<>>]
    /\ syncs = 0
    /\ sinkFailures = 0
    /\ sheets0 = [p \in Procs |-> sheets]
    /\ journal = <<>>
    /\ connector \in Connectors
    /\ held \in HeldOf(connector)
    /\ step = "idle"
    /\ endpoint = 1
    /\ collected = [cash |-> {}, card |-> {}, charges |-> {}]
    /\ requests = <<>>
    /\ tests = 0
    /\ allPassed = TRUE
    /\ probed = <<>>
    /\ transactions = <<>>

\* fetchTransactions is called: the TypeScript parsers throw without an API
\* key, otherwise the first request is next
FetchTransactions ==
    /\ step = "idle" /\ connector \in Connectors
    /\ IF connector \in KnownSources /\ connector \notin keys
       THEN step' = "threw"
       ELSE step' = IF connector = "brex" THEN "cash"
                    ELSE IF connector = "brexjs" THEN "card" ELSE "charges"
    /\ UNCHANGED <<connector, held, endpoint, collected, requests, tests, allPassed, probed>>
    /\ UNCHANGED <<keys, syncVars, transactions>>

\* one turn of the loop over the cash endpoints of the Brex parser: a failed
\* request is caught and the next endpoint is tried, an empty answer too; the
\* first non-empty answer is processed and ends the loop
BrexCashRequest(ok) ==
    /\ connector = "brex" /\ step = "cash"
    /\ requests' = Append(requests, Request(cashEndpoints[endpoint], ok))
    /\ LET cashTransactions == IF ok THEN Page(held.cash, 0) ELSE {}
       IN  IF cashTransactions # {}
           THEN /\ collected' = [collected EXCEPT !.cash = cashTransactions]
                /\ step' = "card"
                /\ UNCHANGED endpoint
           ELSE /\ UNCHANGED collected
                /\ IF endpoint < Len(cashEndpoints)
                   THEN endpoint' = endpoint + 1 /\ UNCHANGED step
                   ELSE step' = "card" /\ UNCHANGED endpoint
    /\ UNCHANGED <<connector, held, tests, allPassed, probed>>
    /\ UNCHANGED <<keys, syncVars, transactions>>

\* the card request of the Brex parser: a failure is caught and logged; then
\* the list is sorted and returned
BrexCardRequest(ok) ==
    /\ connector = "brex" /\ step = "card"
    /\ requests' = Append(requests, Request(cardEndpoint, ok))
    /\ collected' = IF ok THEN [collected EXCEPT !.card = Page(held.card, 0)] ELSE collected
    /\ step' = "returned"
    /\ UNCHANGED <<connector, held, endpoint, tests, allPassed, probed>>
    /\ UNCHANGED <<keys, syncVars, transactions>>

\* the one charges.list call of the TypeScript Stripe parser: its rejection
\* leaves fetchTransactions
StripeChargesList(ok) ==
    /\ connector = "stripe" /\ step = "charges"
    /\ requests' = Append(requests, Request(chargesEndpoint, ok))
    /\ collected' = IF ok THEN [collected EXCEPT !.charges = Page(held.charges, 0)] ELSE collected
    /\ step' = IF ok THEN "returned" ELSE "threw"
    /\ UNCHANGED <<connector, held, endpoint, tests, allPassed, probed>>
    /\ UNCHANGED <<keys, syncVars, transactions>>

\* one turn of the while loop of fetchAllCharges (JavaScript Stripe parser):
\* the page after the last charge seen is listed, until has_more is false
FetchAllCharges(ok, more) ==
    /\ connector = "stripejs" /\ step = "charges"
    /\ ok => "stripe" \in keys
    /\ requests' = Logged(Request(chargesEndpoint, ok))
    /\ LET startingAfter == Cardinality(collected.charges)
       IN  IF ok
           THEN /\ more \in Announced(held.charges, startingAfter)
                /\ collected' = [collected EXCEPT !.charges = @ \cup Page(held.charges, startingAfter)]
                /\ step' = IF more THEN "charges" ELSE "returned"
           ELSE /\ more = FALSE
                /\ UNCHANGED collected
                /\ step' = "threw"
    /\ UNCHANGED <<connector, held, endpoint, tests, allPassed, probed>>
    /\ UNCHANGED <<keys, syncVars, transactions>>

\* one turn of the do-while loop of the JavaScript Brex parser: the page at
\* the cursor is requested, until next_cursor is empty; an error is rethrown
BrexCursorRequest(ok, more) ==
    /\ connector = "brexjs" /\ step = "card"
    /\ ok => "brex" \in keys
    /\ requests' = Logged(Request(cardEndpoint, ok))
    /\ LET cursor == Cardinality(collected.card)
       IN  IF ok
           THEN /\ more \in Announced(held.card, cursor)
                /\ collected' = [collected EXCEPT !.card = @ \cup Page(held.card, cursor)]
                /\ step' = IF more THEN "card" ELSE "returned"
           ELSE /\ more = FALSE
                /\ UNCHANGED collected
                /\ step' = "threw"
    /\ UNCHANGED <<connector, held, endpoint, tests, allPassed, probed>>
    /\ UNCHANGED <<keys, syncVars, transactions>>

\* testConnections is called
TestConnections ==
    /\ tests = 0
    /\ tests' = 1
    /\ allPassed' = TRUE
    /\ UNCHANGED <<connector, held, step, endpoint, collected, requests, probed>>
    /\ UNCHANGED <<keys, syncVars, transactions>>

\* the loop of testConnections with a break at the first failed probe
RunTestStopsAtFailure(ok) ==
    /\ tests \in 1..Len(TestNames)
    /\ LET success == testConnection(TestNames[tests], ok)
       IN  /\ probed' = Append(probed, [name |-> TestNames[tests], ok |-> ok, success |-> success])
           /\ allPassed' = (allPassed /\ success)
           /\ tests' = IF success THEN tests + 1 ELSE Len(TestNames) + 1
    /\ UNCHANGED <<connector, held, step, endpoint, collected, requests>>
    /\ UNCHANGED <<keys, syncVars, transactions>>

\* one turn of the loop of testConnections: the probe is awaited inside a
\* try block, a false answer clears allPassed, and the loop goes on
RunTest(ok) ==
    /\ tests \in 1..Len(TestNames)
    /\ LET success == testConnection(TestNames[tests], ok)
       IN  /\ probed' = Append(probed, [name |-> TestNames[tests], ok |-> ok, success |-> success])
           /\ allPassed' = (allPassed /\ success)
           /\ tests' = tests + 1
    /\ UNCHANGED <<connector, held, step, endpoint, collected, requests>>
    /\ UNCHANGED <<keys, syncVars, transactions>>

NextConnectors ==
    \/ FetchTransactions
    \/ \E ok \in BOOLEAN : BrexCashRequest(ok)
    \/ \E ok \in BOOLEAN : BrexCardRequest(ok)
    \/ \E ok \in BOOLEAN : StripeChargesList(ok)
    \/ \E ok \in BOOLEAN, more \in BOOLEAN : FetchAllCharges(ok, more)
    \/ \E ok \in BOOLEAN, more \in BOOLEAN : BrexCursorRequest(ok, more)
    \/ TestConnections
    \/ \E ok \in BOOLEAN : RunTest(ok)

SpecConnectors == InitConnectors /\ [][NextConnectors]_vars

\* ------------------------------------------- normalisation of the records
\* the bound on the records of one provider response
MaxRecords == 2

\* The records a provider response can hold (description: "plain" for an
\* ordinary text, "noise" for 'Payment - Thank you!'; hasAmount: whether the
\* record has its amount object; cents: amount.amount): an ordinary record on
\* the later day, a failed one, one of amount zero, a noise record, one without
\* its amount object, and an incoming one
RawRecords ==
    {[id |-> 1, status |-> "POSTED", cents |-> 700, description |-> "plain", hasAmount |-> TRUE, day |-> 2],
     [id |-> 2, status |-> "FAILED", cents |-> 700, description |-> "plain", hasAmount |-> TRUE, day |-> 1],
     [id |-> 3, status |-> "POSTED", cents |-> 0, description |-> "plain", hasAmount |-> TRUE, day |-> 1],
     [id |-> 4, status |-> "POSTED", cents |-> 700, description |-> "noise", hasAmount |-> TRUE, day |-> 1],
     [id |-> 5, status |-> "POSTED", cents |-> 0, description |-> "plain", hasAmount |-> FALSE, day |-> 1],
     [id |-> 6, status |-> "POSTED", cents |-> -300, description |-> "plain", hasAmount |-> TRUE, day |-> 1]}

\* the items of a response: up to MaxRecords records, repeats included
Items == UNION {[1..n -> RawRecords] : n \in 0..MaxRecords}

Abs(n) == IF n < 0 THEN -n ELSE n

\* cleanStripeDescription: the noise text is removed, and an empty rest is
\* replaced by the fallback
cleanStripeDescription(description) == IF description = "noise" THEN "Stripe Payment" ELSE description

\* the Transaction built from a record (ghost: via, the endpoint that returned
\* the record, and raw, the record itself)
Normalized(kind, tx, amount, type, via) ==
    [id |-> <<kind, tx.id>>, date |-> DayDate(tx.day, 0), amount |-> amount, type |-> type,
     description |-> tx.description, status |-> tx.status, via |-> via, raw |-> tx]

RECURSIVE ParseCash(_, _)
\* the loop over the records of a cash or transfer response: what is pushed
\* before the loop ends or a record throws
ParseCash(items, e) ==
    IF items = <<>> THEN [pushed |-> <<>>, threw |-> FALSE]
    ELSE LET tx == Head(items)
             rest == ParseCash(Tail(items), e)
             transfers == (cashEndpoints[e] = "/v1/transfers")
             cents == IF tx.hasAmount THEN tx.cents ELSE 0
         IN  IF tx.status \in {"FAILED", "CANCELLED"} THEN rest
             ELSE IF ~transfers /\ ~tx.hasAmount THEN [pushed |-> <<>>, threw |-> TRUE]
             ELSE IF Abs(cents) = 0 THEN rest
             ELSE IF tx.description = "noise" THEN rest
             ELSE [pushed |-> <<Normalized(IF transfers THEN "transfer" ELSE "cash", tx, Abs(cents),
                                           IF cents > 0 THEN "expense" ELSE "income", cashEndpoints[e])>>
                                  \o rest.pushed,
                   threw |-> rest.threw]

RECURSIVE ParseCard(_)
\* the loop over the records of the card response
ParseCard(items) ==
    IF items = <<>> THEN [pushed |-> <<>>, threw |-> FALSE]
    ELSE LET tx == Head(items)
             rest == ParseCard(Tail(items))
         IN  IF ~tx.hasAmount THEN [pushed |-> <<>>, threw |-> TRUE]
             ELSE IF tx.description = "noise" THEN rest
             ELSE [pushed |-> <<Normalized("card", tx, Abs(tx.cents), "expense", cardEndpoint)>> \o rest.pushed,
                   threw |-> rest.threw]

\* the loop over the charges of the Stripe parser
ParseCharges(items) ==
    [k \in 1..Len(items) |->
        [Normalized("charge", items[k], items[k].cents, "income", chargesEndpoint)
            EXCEPT !.description = cleanStripeDescription(@)]]

payoutsEndpoint == "payouts.list"

\* the loop over the payouts of the Stripe parser
ParsePayouts(items) ==
    [k \in 1..Len(items) |-> Normalized("payout", items[k], -items[k].cents, "expense", payoutsEndpoint)]

InitRecords ==
    /\ sheets = [n \in SheetNames |-> <<HeaderRow(n)>>]
    /\ keys = KnownSources
    /\ concurrent = FALSE
    /\ pc = [p \in Procs |-> "idle"]
    /\ todo = [p \in Procs |-> <<>>]
    /\ requested = [p \in Procs |-> <<>>]
    /\ results = [p \in Procs |-> <<>>]
    /\ allTransactions = [p \in Procs |-> <<>>]
    /\ anchor = [p \in Procs |-> [readOk |-> TRUE, rowsSeen |-> 0, a |-> NoAnchor]]
    /\ newTransactions = [p \in Procs |-> <<>>]
    /\ syncs = 0
    /\ sinkFailures = 0
    /\ sheets0 = [p \in Procs |-> sheets]
    /\ journal = <<>>
    /\ connector \in KnownSources
    /\ held = [cash |-> 0, card |-> 0, charges |-> 0]
    /\ step = IF connector = "brex" THEN "cash" ELSE "charges"
    /\ endpoint = 1
    /\ collected = [cash |-> {}, card |-> {}, charges |-> {}]
    /\ requests = <<>>
    /\ tests = 0
    /\ allPassed = TRUE
    /\ probed = <<>>
    /\ transactions = <<>>

\* one turn of the loop over the cash endpoints with the records of the
\* answer: a failed request, an empty answer and a record that throws all lead
\* to the next endpoint; what was pushed before the throw stays in the list
BrexCashRecords(ok, items) ==
    /\ connector = "brex" /\ step = "cash"
    /\ ~ok => items = <<>>
    /\ LET parsed == ParseCash(items, endpoint)
           found == ok /\ items # <<>> /\ ~parsed.threw
       IN  /\ requests' = Append(requests, Request(cashEndpoints[endpoint], ok /\ ~parsed.threw))
           /\ transactions' = transactions \o parsed.pushed
           /\ IF found \/ endpoint = Len(cashEndpoints)
              THEN step' = "card" /\ UNCHANGED endpoint
              ELSE endpoint' = endpoint + 1 /\ UNCHANGED step
    /\ UNCHANGED <<connector, held, collected, tests, allPassed, probed>>
    /\ UNCHANGED <<keys, syncVars>>

\* the card request with the records of the answer, then the sort and the return
BrexCardRecords(ok, items) ==
    /\ connector = "brex" /\ step = "card"
    /\ ~ok => items = <<>>
    /\ LET parsed == ParseCard(items)
       IN  /\ requests' = Append(requests, Request(cardEndpoint, ok /\ ~parsed.threw))
           /\ transactions' = sortByDate(transactions \o parsed.pushed)
    /\ step' = "returned"
    /\ UNCHANGED <<connector, held, endpoint, collected, tests, allPassed, probed>>
    /\ UNCHANGED <<keys, syncVars>>

\* charges.list of the Stripe parser with the charges of the answer
StripeChargeRecords(ok, items) ==
    /\ connector = "stripe" /\ step = "charges"
    /\ ~ok => items = <<>>
    /\ requests' = Append(requests, Request(chargesEndpoint, ok))
    /\ transactions' = transactions \o ParseCharges(items)
    /\ step' = IF ok THEN "payouts" ELSE "threw"
    /\ UNCHANGED <<connector, held, endpoint, collected, tests, allPassed, probed>>
    /\ UNCHANGED <<keys, syncVars>>

\* payouts.list of the Stripe parser with the payouts of the answer
StripePayoutRecords(ok, items) ==
    /\ connector = "stripe" /\ step = "payouts"
    /\ ~ok => items = <<>>
    /\ requests' = Append(requests, Request(payoutsEndpoint, ok))
    /\ transactions' = transactions \o ParsePayouts(items)
    /\ step' = IF ok THEN "returned" ELSE "threw"
    /\ UNCHANGED <<connector, held, endpoint, collected, tests, allPassed, probed>>
    /\ UNCHANGED <<keys, syncVars>>

NextRecords ==
    \/ \E ok \in BOOLEAN, items \in Items : BrexCashRecords(ok, items)
    \/ \E ok \in BOOLEAN, items \in Items : BrexCardRecords(ok, items)
    \/ \E ok \in BOOLEAN, items \in Items : StripeChargeRecords(ok, items)
    \/ \E ok \in BOOLEAN, items \in Items : StripePayoutRecords(ok, items)

SpecRecords == InitRecords /\ [][NextRecords]_vars

\* the steps of a fetch: a request that was made is answered or fails
Fetching ==
    \/ FetchTransactions
    \/ \E ok \in BOOLEAN : BrexCashRequest(ok) \/ BrexCardRequest(ok) \/ StripeChargesList(ok)
    \/ \E ok \in BOOLEAN, more \in BOOLEAN : FetchAllCharges(ok, more) \/ BrexCursorRequest(ok, more)

\* the connectors with every awaited request eventually settled
LiveConnectors == SpecConnectors /\ WF_vars(Fetching)

\* ------------------------------------------------------ reading a ledger
\* the bound on the data rows of a hand-made ledger
MaxRows == 2

\* year < 50: the pivot of the two-digit year
Pivot == 50

\* the years a two-digit year can stand for
Years == (1900 + Pivot)..(2000 + Pivot - 1)

\* a row somebody typed into the Brex sheet (ghost: the date that was meant,
\* NoDate when the date cell is no dd/mm/yy date)
LedgerRow(dateText, toFromText, amountText, meant) ==
    [cells |-> <<dateText, toFromText, amountText>>, src |-> "manual", txn |-> 0, date |-> meant]

\* 21 November of a year
Nov21(y) == [y |-> y, m |-> 11, d |-> 21, tod |-> 0]

\* a well-formed row for every year of the century around the pivot
YearRows == {LedgerRow(formattedDate(Nov21(y)), <<"a">>, <<"-", "1", ".", "5", "0">>, Nov21(y)) : y \in Years}

\* rows of the kinds a ledger holds: plain rows on two days, a row whose
\* To/From cell ends with a blank, a row without an amount, a row whose date
\* cell is no date
LedgerRows ==
    {LedgerRow(formattedDate(DayDate(1, 0)), <<"a">>, <<"-", "1", ".", "5", "0">>, DayDate(1, 0)),
     LedgerRow(formattedDate(DayDate(2, 0)), <<"a">>, <<"-", "1", ".", "5", "0">>, DayDate(2, 0)),
     LedgerRow(formattedDate(DayDate(2, 0)), <<"a", " ">>, <<"2", ".", "0", "0">>, DayDate(2, 0)),
     LedgerRow(formattedDate(DayDate(2, 0)), <<"b">>, <<>>, DayDate(2, 0)),
     LedgerRow(<<"x">>, <<"b">>, <<"2", ".", "0", "0">>, NoDate)}

\* the Brex sheets read: the header row and either one row of some year or up
\* to MaxRows rows of the kinds above
LedgerSheets ==
    {<<HeaderRow(BrexSheet), r>> : r \in YearRows}
        \cup {<<HeaderRow(BrexSheet)>> \o rows : rows \in UNION {[1..n -> LedgerRows] : n \in 0..MaxRows}}

InitLedger ==
    /\ sheets \in {[n \in SheetNames |-> IF n = BrexSheet THEN sh ELSE <<HeaderRow(n)>>] : sh \in LedgerSheets}
    /\ keys = KnownSources
    /\ concurrent = FALSE
    /\ pc = [p \in Procs |-> "idle"]
    /\ todo = [p \in Procs |-> <<>>]
    /\ requested = [p \in Procs |-> <<>>]
    /\ results = [p \in Procs |-> <<>>]
    /\ allTransactions = [p \in Procs |-> <<>>]
    /\ anchor = [p \in Procs |-> [readOk |-> TRUE, rowsSeen |-> 0, a |-> NoAnchor]]
    /\ newTransactions = [p \in Procs |-> <<>>]
    /\ syncs = 0
    /\ sinkFailures = 0
    /\ sheets0 = [p \in Procs |-> sheets]
    /\ journal = <<>>
    /\ ConnectorsIdle

\* simpleDateCheck: getLatestTransactionInfo called on the Brex sheet
SimpleDateCheck(p, ok) ==
    /\ pc[p] = "idle"
    /\ pc' = [pc EXCEPT ![p] = "checked"]
    /\ anchor' = [anchor EXCEPT ![p] = [readOk |-> ok, rowsSeen |-> Len(sheets[BrexSheet]),
                                        a |-> ReadAnchorOf("brex", sheets[BrexSheet], ok)]]
    /\ UNCHANGED <<sheets, keys, concurrent, todo, results, allTransactions, newTransactions,
                   syncs, sinkFailures, requested, sheets0, journal>>
    /\ UNCHANGED connVars

NextLedger == \E p \in Procs, ok \in BOOLEAN : SimpleDateCheck(p, ok)

SpecLedger == InitLedger /\ [][NextLedger]_vars

\* ------------------------------------------------------------ vocabulary
Range(f) == {f[k] : k \in DOMAIN f}

\* calendar day of a date, as a number
DayNum(dt) == Instant([dt EXCEPT !.tod = 0])

\* the ledger holds a row written for transaction t
InLedger(t) == \E k \in 1..Len(sheets[SheetOf(t.src)]) :
                   sheets[SheetOf(t.src)][k].src = t.src /\ sheets[SheetOf(t.src)][k].txn = t.id

\* the (formatted date, signed amount, resolved description) of a transaction
Triple(t) == [date |-> formattedDate(t.date), description |-> toFrom(t), amount |-> amountValue(t)]

IsSortedByDate(txns) == \A k \in 1..(Len(txns) - 1) : Instant(txns[k].date) <= Instant(txns[k + 1].date)

\* a finished syncSource call during which neither the connector nor the sink failed
Clean(e) == ~e.threw /\ e.readOk /\ e.writeOk

AllClean == \A k \in 1..Len(journal) : Clean(journal[k])

\* ---------------------------------------------------------------------- C1
\* C1: no provider transaction is written to its ledger sheet more than once,
\* whatever the sources, the fetch results and the outcomes of the sink reads.
C1_NoDuplicateRows ==
    \A name \in SheetNames : \A i, j \in 1..Len(sheets[name]) :
        (i < j /\ sheets[name][i].txn # 0)
            => ~(sheets[name][i].src = sheets[name][j].src /\ sheets[name][i].txn = sheets[name][j].txn)

\* ---------------------------------------------------------------------- C2
\* C2 (as claimed): a fetched transaction that is not in the ledger is never
\* skipped for good; as the filters are functions of the ledger, this is: after
\* a syncSource call whose sheet read and append succeeded, every transaction it
\* fetched is in the ledger.
C2_NoLoss ==
    \A k \in 1..Len(journal) :
        Clean(journal[k]) => \A t \in Range(journal[k].all) : InLedger(t)

\* C2 (amended): after a syncSource call whose sheet read and append succeeded,
\* every fetched Stripe transaction is in the ledger, and every fetched Brex
\* transaction is in the ledger unless the read found a latest date and the
\* transaction is dated on a day before it, or on that day with a triple equal
\* to one of that day's rows; a Brex transaction of these two kinds is not
\* passed to the append.
C2_AppendedUnlessBehindAnchor ==
    \A k \in 1..Len(journal) :
        LET e == journal[k]
            info == e.anchor.info
            Behind(t) == /\ e.source = "brex"
                         /\ info.latestDate # NoDate
                         /\ \/ DayNum(t.date) < DayNum(info.latestDate)
                            \/ /\ DayNum(t.date) = DayNum(info.latestDate)
                               /\ Triple(t) \in Range(info.existingFromLatestDate)
        IN  Clean(e) => \A t \in Range(e.all) :
                            /\ ~Behind(t) => InLedger(t)
                            /\ Behind(t) => t \notin Range(e.passed)

\* a Brex call with a successful read and append that wrote one fetched
\* transaction and skipped another
WitC2 ==
    \E k \in 1..Len(journal) :
        /\ Clean(journal[k]) /\ journal[k].source = "brex" /\ journal[k].wrote
        /\ journal[k].anchor.info.latestDate # NoDate
        /\ \E t \in Range(journal[k].all) : t \notin Range(journal[k].passed)

\* ---------------------------------------------------------------------- C3
\* C3: when syncSource runs twice in succession for a source and the provider
\* returns the same transactions both times, the second SyncResult has new = 0
\* (stated here for calls in which no sink read or write failed).
C3_Idempotent ==
    \A k \in 1..(Len(journal) - 1) :
        (/\ journal[k].source = journal[k + 1].source
         /\ Clean(journal[k]) /\ Clean(journal[k + 1])
         /\ journal[k].all = journal[k + 1].all)
            => journal[k + 1].result.new = 0

\* ---------------------------------------------------------------------- C4
\* C4: under Strategy A newTransactions holds exactly the fetched transactions
\* whose id is not in knownIds.
C4_IdentityFilter ==
    \A p \in Procs :
        (pc[p] = "filtered" /\ Head(todo[p]) = "stripe")
            => /\ Range(newTransactions[p]) \subseteq Range(allTransactions[p])
               /\ \A t \in Range(allTransactions[p]) :
                      /\ StripeIdText(t.id) \in anchor[p].a.existingIds => t \notin Range(newTransactions[p])
                      /\ StripeIdText(t.id) \notin anchor[p].a.existingIds => t \in Range(newTransactions[p])

\* a Stripe filter that met a known and an unknown id
WitC4 ==
    \E p \in Procs :
        /\ pc[p] = "filtered" /\ Head(todo[p]) = "stripe"
        /\ \E t, u \in Range(allTransactions[p]) :
               /\ StripeIdText(t.id) \in anchor[p].a.existingIds
               /\ StripeIdText(u.id) \notin anchor[p].a.existingIds

\* ---------------------------------------------------------------------- C5
\* C5: under Strategy A a fetched transaction is in newTransactions on every
\* run until an append has recorded it, and in no run after that.
C5_OfferedUntilRecorded ==
    \A p \in Procs :
        (pc[p] = "filtered" /\ Head(todo[p]) = "stripe")
            => \A t \in Range(allTransactions[p]) :
                   (t \in Range(newTransactions[p])) <=> ~InLedger(t)

\* ---------------------------------------------------------------------- C6
\* C6: under Strategy B with a known latestDate, a fetched transaction dated on
\* a day before latestDate is excluded, one dated on that day is excluded iff
\* its triple equals a row of latestDateRows, one dated later is included.
C6_BoundaryFilter ==
    \A p \in Procs :
        (pc[p] = "filtered" /\ Head(todo[p]) = "brex" /\ anchor[p].a.info.latestDate # NoDate)
            => LET info == anchor[p].a.info
               IN  \A t \in Range(allTransactions[p]) :
                       /\ DayNum(t.date) < DayNum(info.latestDate) => t \notin Range(newTransactions[p])
                       /\ DayNum(t.date) = DayNum(info.latestDate)
                              => ((t \notin Range(newTransactions[p]))
                                      <=> Triple(t) \in Range(info.existingFromLatestDate))
                       /\ DayNum(t.date) > DayNum(info.latestDate) => t \in Range(newTransactions[p])

\* a Brex filter that dropped a transaction of the latest day for its triple
\* and kept another transaction of that day
WitC6 ==
    \E p \in Procs :
        /\ pc[p] = "filtered" /\ Head(todo[p]) = "brex" /\ anchor[p].a.info.latestDate # NoDate
        /\ \E t, u \in Range(allTransactions[p]) :
               /\ SameDay(t.date, anchor[p].a.info.latestDate) /\ t \notin Range(newTransactions[p])
               /\ SameDay(u.date, anchor[p].a.info.latestDate) /\ u \in Range(newTransactions[p])

\* ---------------------------------------------------------------------- C7
\* the journal entries of the syncAll call that invocation p made last
RunEntries(p) == SubSeq(journal, Len(journal) - Len(results[p]) + 1, Len(journal))

RECURSIVE Replay(_, _)
\* the new counts syncSource reports when the calls of es are made one after
\* another on the sheets sh
Replay(sh, es) ==
    IF es = <<>> THEN <<>>
    ELSE LET e == Head(es)
             name == SheetOf(e.source)
             a == ReadAnchorOf(e.source, sh[name], e.readOk)
             new == sortByDate(FilterNew(e.source, e.all, a))
             written == new # <<>> /\ e.writeOk
         IN  <<IF new = <<>> THEN 0 ELSE AddedCount(new, e.writeOk)>>
                 \o Replay(IF written THEN [sh EXCEPT ![name] = sh[name] \o RowsOf(name, new)] ELSE sh,
                           Tail(es))

\* C7: when a connector throws during syncAll, every other requested source is
\* still processed: the returned list has one SyncResult per requested source
\* (in the order requested), the result of a source whose connector threw has
\* errors and new = 0, and the new counts of the other sources are those of the
\* same run without the failing sources.
C7_FailureIsolation ==
    (pc[1] = "done" /\ ~concurrent)
        => LET es == RunEntries(1)
               ok == SelectSeq(es, LAMBDA e : ~e.threw)
           IN  /\ [k \in 1..Len(results[1]) |-> results[1][k].source] = requested[1]
               /\ \A k \in 1..Len(es) :
                      /\ es[k].result = results[1][k]
                      /\ es[k].threw => (results[1][k].errors # <<>> /\ results[1][k].new = 0)
               /\ [k \in 1..Len(ok) |-> ok[k].result.new] = Replay(sheets0[1], ok)

\* a run of two sources in which the first connector threw and the second
\* source added rows
WitC7 ==
    /\ pc[1] = "done" /\ Len(results[1]) = 2
    /\ results[1][1].errors # <<>>
    /\ results[1][2].new > 0 /\ results[1][2].source # results[1][1].source

\* ---------------------------------------------------------------------- C8
\* C8: when addTransactions fails after a successful fetch, the SyncResult of
\* the source has new = 0 and a non-empty errors list.
C8_WriteFailureSurfaced ==
    \A k \in 1..Len(journal) :
        (journal[k].wrote /\ ~journal[k].writeOk)
            => (journal[k].result.new = 0 /\ journal[k].result.errors # <<>>)

\* ---------------------------------------------------------------------- C9
\* C9: the list syncSource passes to addTransactions is sorted ascending by
\* date, for both strategies.
C9_AppendSorted ==
    /\ \A p \in Procs : pc[p] = "filtered" => IsSortedByDate(newTransactions[p])
    /\ \A k \in 1..Len(journal) : journal[k].wrote => IsSortedByDate(journal[k].passed)

\* an append of two transactions that the connector had returned latest first
WitC9 ==
    \E k \in 1..Len(journal) :
        /\ journal[k].wrote /\ Len(journal[k].passed) >= 2
        /\ ~IsSortedByDate(journal[k].all)

\* --------------------------------------------------------------------- C10
\* C10 (as claimed): starting from an empty ledger (a sheet holding its header
\* row only), after successful runs the rows of each ledger sheet are in
\* non-decreasing order of their day.
C10_LedgerSorted ==
    AllClean => \A name \in SheetNames :
        (sheets[name] # <<>> /\ sheets[name][1].txn = 0)
            => \A i, j \in 2..Len(sheets[name]) :
                   i < j => DayNum(sheets[name][i].date) <= DayNum(sheets[name][j].date)

\* C10 (amended): starting from an empty ledger, after successful runs the rows
\* of the Brex sheet below its first row are in non-decreasing order of their
\* day, and every batch appended to either sheet is sorted by date.
C10_BrexLedgerSortedByDay ==
    AllClean =>
        /\ \A i, j \in 2..Len(sheets[BrexSheet]) :
               i < j => DayNum(sheets[BrexSheet][i].date) <= DayNum(sheets[BrexSheet][j].date)
        /\ \A k \in 1..Len(journal) : IsSortedByDate(journal[k].passed)

\* two successful Brex runs that both appended rows
WitC10 ==
    /\ AllClean /\ Len(journal) >= 2
    /\ \A k \in 1..Len(journal) : journal[k].source = "brex" /\ journal[k].wrote
    /\ Len(sheets[BrexSheet]) >= 3

\* --------------------------------------------------------------------- C11
\* rows written by syncAll runs (the header row is the only row that is not)
AppendedRows(name) == Cardinality({k \in 1..Len(sheets[name]) : sheets[name][k].txn # 0})

RECURSIVE SumNew(_)
\* sum of the new counts of a sequence of journal entries
SumNew(es) == IF es = <<>> THEN 0 ELSE Head(es).result.new + SumNew(Tail(es))

\* C11: for any sequence and any interleaving of syncAll runs, the number of
\* rows the ledger has gained since before the runs equals the sum of the new
\* counts of all SyncResults reported so far.
C11_RowCountMatchesNew ==
    AppendedRows(BrexSheet) + AppendedRows(StripeSheet) = SumNew(journal)

\* two overlapping runs have both appended, the later-started one first, and
\* one batch had two rows
WitC11 ==
    /\ Len(journal) >= 2
    /\ journal[1].proc = 2 /\ journal[1].result.new > 0
    /\ journal[2].proc = 1 /\ journal[2].result.new = 2

\* --------------------------------------------------------------------- C12
\* C12: between the anchor read of a source and the append of its batch no
\* other append reaches the same sheet: while a run holds a filtered batch, the
\* sheet still has the rows it had when the anchor was read.
C12_ReadAppendAtomic ==
    \A p \in Procs :
        pc[p] = "filtered" => Len(sheets[SheetOf(Head(todo[p]))]) = anchor[p].rowsSeen

\* --------------------------------------------------------------------- C13
\* C13: when the anchor read of a source fails, the run of that source does not
\* fail: it goes on with the empty anchor, every fetched transaction is
\* classified as new and the whole fetch is passed to addTransactions, and the
\* SyncResult carries no error.
C13_ReadFailureMeansAllNew ==
    /\ \A p \in Procs :
           (pc[p] = "filtered" /\ ~anchor[p].readOk)
               => /\ anchor[p].a = NoAnchor
                  /\ newTransactions[p] = sortByDate(allTransactions[p])
    /\ \A k \in 1..Len(journal) :
           ~journal[k].readOk
               => /\ ~journal[k].threw /\ journal[k].wrote
                  /\ Len(journal[k].passed) = Len(journal[k].all)
                  /\ Range(journal[k].passed) = Range(journal[k].all)
                  /\ journal[k].result.errors = <<>>

\* a read failed for a fetch holding a transaction an earlier run had written
WitC13 ==
    \E j, k \in 1..Len(journal) :
        /\ j < k /\ journal[j].source = journal[k].source
        /\ journal[j].wrote /\ journal[j].writeOk
        /\ ~journal[k].readOk /\ journal[k].wrote
        /\ Range(journal[j].passed) \cap Range(journal[k].all) # {}

\* --------------------------------------------------------------------- C14
\* C14: when a provider request made during fetchTransactions fails,
\* fetchTransactions fails (and syncAll records an error for the source): no
\* connector returns a list after one of its requests has failed.
C14_RequestFailureFailsFetch ==
    step = "returned" => \A k \in 1..Len(requests) : requests[k].ok

\* --------------------------------------------------------------------- C15
\* C15: syncAll fails exactly when the list has no valid source name: a call
\* that has returned a result list was given at least one valid name.
C15_RejectsWithoutValidName ==
    \A p \in Procs : pc[p] = "done" => requested[p] # <<>>

\* --------------------------------------------------------------------- C16
\* C16: a probe returns false on any failure, testConnections returns true
\* exactly when every probe returned true, and every probe is run whatever the
\* earlier ones returned.
C16_ProbesAllRunAndCombined ==
    /\ \A k \in 1..Len(probed) :
           /\ probed[k].name = TestNames[k]
           /\ probed[k].success \in BOOLEAN
           /\ (~probed[k].ok \/ ConfigOf(probed[k].name) \notin keys) => ~probed[k].success
    /\ tests = Len(TestNames) + 1
           => /\ Len(probed) = Len(TestNames)
              /\ allPassed = (\A k \in 1..Len(probed) : probed[k].success)

\* the first probe failed, the second passed, the third failed
WitC16 ==
    /\ tests = Len(TestNames) + 1
    /\ ~probed[1].success /\ probed[2].success /\ ~probed[3].success /\ ~allPassed

\* --------------------------------------------------------------------- C17
\* C17: the response or exit code of an invocation that ran a sync signals
\* failure exactly when some returned SyncResult has a non-empty errors list.
C17_ResponseSignalsErrors ==
    \A p \in Procs :
        pc[p] = "done"
            => LET hasErrors == \E k \in 1..Len(results[p]) : results[p][k].errors # <<>>
               IN  /\ syncResponse(results[p]).success = ~hasErrors
                   /\ (mainExitCode(results[p]) = 0) = ~hasErrors

\* --------------------------------------------------------------------- C18
\* C18: a fetch whose requests all succeeded returns every record the provider
\* holds, those beyond the first page included.
C18_AllPagesFetched ==
    (step = "returned" /\ \A k \in 1..Len(requests) : requests[k].ok)
        => /\ collected.cash = 1..held.cash
           /\ collected.card = 1..held.card
           /\ collected.charges = 1..held.charges

\* --------------------------------------------------------------------- C19
\* C19: a failed page request is retried before the connector gives up: once
\* fetchTransactions is over, an endpoint with a failed request has been
\* requested more than once.
C19_FailedRequestRetried ==
    step \in {"returned", "threw"}
        => \A k \in 1..Len(requests) :
               ~requests[k].ok
                   => Cardinality({j \in 1..Len(requests) :
                                      requests[j].endpoint = requests[k].endpoint}) > 1

\* --------------------------------------------------------------------- C20
\* the stages of a source run in the order fetch, anchor read with filter,
\* append, each once: a step leaves "fetched" only for the read, a write or a
\* failed sink request ends its stage, and the source is over after the append
StagesInOrderOnce ==
    /\ \A p \in Procs :
           /\ (pc'[p] = "fetched" /\ pc[p] # "fetched") => pc[p] = "loop"
           /\ (pc'[p] = "filtered" /\ pc[p] # "filtered") => pc[p] = "fetched"
           /\ (pc[p] = "fetched" /\ pc'[p] # "fetched")
                  => (pc'[p] = "filtered" /\ todo'[p] = todo[p])
           /\ (pc[p] = "filtered" /\ pc'[p] # "filtered")
                  => (pc'[p] = "loop" /\ todo'[p] = Tail(todo[p]))
    /\ sheets' # sheets
           => \E p \in Procs : pc[p] = "filtered" /\ pc'[p] = "loop"
    /\ sinkFailures' # sinkFailures
           => \E p \in Procs : \/ pc[p] = "fetched" /\ pc'[p] = "filtered"
                               \/ pc[p] = "filtered" /\ pc'[p] = "loop"

\* a failed fetch ends the source: its error result is recorded in the step
\* that leaves the source, and nothing is read or written for it
FetchFailureTerminal ==
    (Len(journal') > Len(journal) /\ journal'[Len(journal')].threw)
        => /\ sheets' = sheets /\ sinkFailures' = sinkFailures
           /\ \E p \in Procs : /\ pc[p] = "loop" /\ pc'[p] = "loop"
                               /\ todo'[p] = Tail(todo[p])

\* after a failed anchor read nothing is appended
ReadFailureTerminal ==
    \A p \in Procs : (pc[p] = "filtered" /\ ~anchor[p].readOk) => sheets' = sheets

\* C20: within one syncAll pass each source goes through fetch, anchor read,
\* filter and append in that order, each stage at most once and none retried,
\* and once a stage has failed no later stage of that source runs.
C20_StagesOnceFailureTerminal ==
    [][StagesInOrderOnce /\ FetchFailureTerminal /\ ReadFailureTerminal]_vars

\* C20, amended: the stages run in that order, each at most once and none
\* retried; a failed fetch ends the source for the pass, a failed append is its
\* last stage, and a failed anchor read is followed by the filter and the append.
C20_StagesOnceFetchFailureTerminal ==
    [][StagesInOrderOnce /\ FetchFailureTerminal]_vars

\* a pass whose first source failed to fetch and whose second source was
\* appended after a failed anchor read
WitC20 ==
    /\ pc[1] = "done" /\ Len(results[1]) = 2 /\ Len(journal) = 2
    /\ journal[1].threw /\ results[1][1].errors # <<>>
    /\ ~journal[2].readOk /\ journal[2].wrote /\ journal[2].writeOk

\* --------------------------------------------------------------------- C21
\* the data rows of a sheet (those below the header) whose date cell is a date
DatedRows(rows) == SelectSeq(SubSeq(rows, 2, Len(rows)), LAMBDA r : r.date # NoDate)

\* C21: getLatestTransactionInfo returns as latestDate the latest day over all
\* data rows whose date text parses, ignoring the other rows, and as
\* existingFromLatestDate exactly the rows of that day with their date, amount
\* and description text as stored; when no row parses it returns null and the
\* empty list.
C21_LatestInfoExact ==
    \A p \in Procs :
        (pc[p] = "checked" /\ anchor[p].readOk)
            => LET dated == DatedRows(sheets[BrexSheet])
                   info == anchor[p].a.info
                   onLatest == SelectSeq(dated, LAMBDA r : SameDay(r.date, info.latestDate))
               IN  IF dated = <<>>
                   THEN info = EmptyInfo
                   ELSE /\ \A k \in 1..Len(dated) : DayNum(dated[k].date) <= DayNum(info.latestDate)
                        /\ \E k \in 1..Len(dated) : SameDay(dated[k].date, info.latestDate)
                        /\ info.existingFromLatestDate
                               = [k \in 1..Len(onLatest) |->
                                      [date |-> onLatest[k].cells[1],
                                       description |-> onLatest[k].cells[2],
                                       amount |-> onLatest[k].cells[3]]]

\* --------------------------------------------------------------------- C25
\* C25: a ledger date dd/mm/yy parses to day dd of month mm of the year
\* 2000 + yy when yy < 50 and 1900 + yy otherwise, for every yy in 00..99.
C25_TwoDigitYearPivot ==
    \A p \in Procs :
        (pc[p] = "checked" /\ anchor[p].readOk /\ Len(sheets[BrexSheet]) = 2
             /\ sheets[BrexSheet][2] \in YearRows)
            => anchor[p].a.info.latestDate = sheets[BrexSheet][2].date

\* --------------------------------------------------------------------- C27
\* C27: every row addTransactions has appended is taken into account by the
\* next anchor read, the first row written into a completely empty sheet
\* included: a Stripe row's id is among the existing ids, a Brex row's day is
\* not after the latest date read.
C27_AppendedRowsReadBack ==
    \A name \in SheetNames : \A k \in 1..Len(sheets[name]) :
        sheets[name][k].txn # 0
            => IF name = StripeSheet
               THEN sheets[name][k].cells[1] \in getExistingIds(Values(sheets[name]))
               ELSE LET info == getLatestTransactionInfo(Values(sheets[name]))
                    IN  /\ info.latestDate # NoDate
                        /\ DayNum(sheets[name][k].date) <= DayNum(info.latestDate)

\* --------------------------------------------------------------------- C28
\* C28: for every Brex transaction, the date, signed amount and To/From text
\* that addTransactions wrote, read back and trimmed by the anchor read, are
\* the triple the boundary-day filter computes for that transaction.
C28_WrittenTripleReadsBack ==
    \A k \in 1..Len(sheets[BrexSheet]) :
        sheets[BrexSheet][k].txn # 0
            => ExistingEntry(sheets[BrexSheet][k].cells) = Triple(BrexTxn(sheets[BrexSheet][k].txn))

\* --------------------------------------------------------------------- C30
\* C30: when the fetch returns no transactions the sink is neither read nor
\* written and the result is new = 0, total = 0; when the filter leaves nothing
\* the sink is not written and the result is new = 0 with total the number of
\* transactions fetched.
C30_NothingToWrite ==
    [][\A p \in Procs :
           Len(results'[p]) = Len(results[p]) + 1
               => LET e == journal'[Len(journal')]
                  IN  /\ (~e.threw /\ e.all = <<>>)
                          => /\ pc[p] = "loop"
                             /\ sheets' = sheets /\ sinkFailures' = sinkFailures
                             /\ e.result = Result(e.source, 0, 0, <<>>)
                      /\ (e.all # <<>> /\ FilterNew(e.source, e.all, e.anchor) = <<>>)
                          => /\ sheets' = sheets
                             /\ e.result = Result(e.source, 0, Len(e.all), <<>>)]_vars

\* a source was fetched again after its rows had been written: everything
\* fetched was filtered out and the call reported new = 0 with the fetched count
WitC30 ==
    \E k \in 1..Len(journal) :
        /\ journal[k].all # <<>> /\ journal[k].readOk /\ ~journal[k].wrote
        /\ FilterNew(journal[k].source, journal[k].all, journal[k].anchor) = <<>>
        /\ journal[k].result.new = 0
        /\ journal[k].result.total = Len(journal[k].all)

\* --------------------------------------------------------------------- C26
\* C26: the pagination loop of every connector terminates for any provider
\* behaviour: a fetch that has started making requests eventually returns or
\* throws, and does not request the same page for ever.
C26_PaginationTerminates ==
    (step \in {"cash", "card", "charges"}) ~> (step \in {"returned", "threw"})

\* --------------------------------------------------------------------- C22
\* C22: every Transaction a connector's fetch returns has amount > 0; the sign
\* is carried by the income/expense type only.
C22_AmountsPositive ==
    step = "returned" => \A k \in 1..Len(transactions) : transactions[k].amount > 0

\* --------------------------------------------------------------------- C23
\* C23: within the batch one fetch returns, transaction ids are unique: of
\* two provider records with the same identity on the same instant only one
\* survives normalisation.
C23_IdsUniqueInBatch ==
    step = "returned"
        => \A i, j \in 1..Len(transactions) : i # j => transactions[i].id # transactions[j].id

\* --------------------------------------------------------------------- C24
\* C24: no returned transaction comes from a provider record with status
\* FAILED or CANCELLED or with the 'Payment - Thank you!' noise description, on
\* the cash/transfer stream and on the card stream alike.
C24_NoNonFinalNoNoise ==
    step = "returned"
        => \A k \in 1..Len(transactions) :
               /\ transactions[k].raw.status \notin {"FAILED", "CANCELLED"}
               /\ transactions[k].raw.description # "noise"

\* --------------------------------------------------------------------- C29
\* C29: in one Brex fetchTransactions call the cash/transfer transactions of
\* the returned list all come from one endpoint of the fallback list, and an
\* endpoint whose request or record processing failed contributes none.
C29_CashFromOneEndpoint ==
    (step = "returned" /\ connector = "brex")
        => LET cash == SelectSeq(transactions, LAMBDA t : t.via # cardEndpoint)
           IN  /\ \A i, j \in 1..Len(cash) : cash[i].via = cash[j].via
               /\ \A i \in 1..Len(cash) : \A k \in 1..Len(requests) :
                      requests[k].endpoint = cash[i].via => requests[k].ok

====
